---- MODULE Spec2Model ----
(***************************************************************************)
(* Model of the TruffleHog spreadsheet automation: match.py (status sync   *)
(* between two sheets) and upload.py (ND-JSON findings upload).            *)
(*                                                                         *)
(* Strings are sequences of one-character strings so that str.strip(),     *)
(* chr() and label building are computed rather than assumed.  A Grid      *)
(* Store (gspread worksheet) is a physical column count plus its rows.     *)
(***************************************************************************)
EXTENDS Integers, Sequences, FiniteSets, TLC

VARIABLES
    \* ---- col_letter (match.py) as a loop
    clIn,        \* the argument idx_1based as passed by the caller
    clIdx,       \* the loop variable idx_1based
    clRes,       \* res, the label built so far
    clPc,        \* "loop" | "returned"
    \* ---- match.main
    pc,              \* position in main
    credExists,      \* Path(SERVICE_ACCOUNT_KEY).exists()
    chunkSize,       \* UPLOAD_CHUNK, rows per API call
    q4rows,          \* the Q4 worksheet as get_all_values() returns it
    q2cols,          \* the Q2 worksheet's physical column count (col_count)
    q2rows,          \* the Q2 worksheet's cells, row 1 the header
    link_to_status,  \* the mapping build_q4_mapping returned
    dfCols,          \* df_q2.columns
    dfRows,          \* df_q2's rows
    status_col_zero, \* index ensure_status_column returned
    matches,         \* rows written by the merge loop
    i,               \* offset of the next chunk
    calls,           \* remote mutations issued on the Q2 worksheet, in order
    ensureRets,      \* indices returned by successive ensure_status_column calls
    \* ---- upload.main
    upPc,            \* position in main
    lines,           \* the lines of INPUT_FILE
    lineNo,          \* the next line load_findings reads
    records,         \* load_findings' records, each the row of its values
    upRows,          \* the rows of the worksheet upload writes to
    upCalls,         \* remote calls upload_dataframe issued, in order
    upI              \* offset of the next chunk

colVars == <<clIn, clIdx, clRes, clPc>>
matchVars == <<pc, credExists, chunkSize, q4rows, q2cols, q2rows, link_to_status,
               dfCols, dfRows, status_col_zero, matches, i, calls, ensureRets>>

upVars == <<upPc, lines, lineNo, records, upRows, upCalls, upI>>

vars == <<colVars, matchVars, upVars>>

\* ------------------------------------------------------------------ bounds
MaxColIdx == 703     \* largest positive column index given to col_letter
MaxNegIdx == 2       \* col_letter is also given 0, -1 .. -MaxNegIdx
MaxLabelLen == 4     \* cap on the length of res in the col_letter loop
MaxQ4Rows == 2       \* data rows of the Q4 worksheet
MaxQ2Rows == 3       \* data rows of the Q2 worksheet
MaxExtraCols == 1    \* physical Q2 columns to the right of the last used one
MaxChunk == 2        \* chunk sizes 1..MaxChunk stand for UPLOAD_CHUNK
MaxEnsureCalls == 2  \* successive ensure_status_column calls
MaxLines == 3        \* lines of the findings file

\* -------------------------------------------------------------- constants
Q4_STATUS_COL_N == 13
Q4_LINK_HEADER == <<"G","i","t","h","u","b"," ","L","i","n","k","s">>
Q2_LINK_HEADER == <<"L","i","n","k">>
Q2_STATUS_HEADER == <<"V","a","l","i","d","i","t","y"," ","s","t","a","t","u","s">>

\* ----------------------------------------------------------------- strings
Alphabet == <<"A","B","C","D","E","F","G","H","I","J","K","L","M",
              "N","O","P","Q","R","S","T","U","V","W","X","Y","Z">>

\* str.strip(): drop leading and trailing whitespace
RECURSIVE Strip(_)
Strip(s) ==
    IF s = <<>> THEN <<>>
    ELSE IF Head(s) = " " THEN Strip(Tail(s))
    ELSE IF s[Len(s)] = " " THEN Strip(SubSeq(s, 1, Len(s) - 1))
    ELSE s

Max(a, b) == IF a >= b THEN a ELSE b

\* name in list
Contains(seq, x) == \E k \in 1..Len(seq) : seq[k] = x

\* list.index(x), zero-based: the first position holding x
IndexOf(seq, x) == (CHOOSE k \in 1..Len(seq) :
                       seq[k] = x /\ \A j \in 1..(k - 1) : seq[j] # x) - 1

\* ------------------------------------------------------------ idle values
EmptyMap == [k \in {} |-> <<>>]

MatchIdleExceptShared ==
    /\ pc = "idle"
    /\ q4rows = <<>> /\ q2cols = 0 /\ q2rows = <<>>
    /\ link_to_status = EmptyMap /\ dfCols = <<>> /\ dfRows = <<>>
    /\ status_col_zero = 0 /\ matches = 0 /\ i = 0
    /\ calls = <<>> /\ ensureRets = <<>>

MatchIdle == MatchIdleExceptShared /\ credExists = TRUE /\ chunkSize = 1

UploadNonInputIdle ==
    /\ lineNo = 1 /\ records = <<>> /\ upCalls = <<>> /\ upI = 0

UploadIdle ==
    /\ upPc = "idle" /\ lines = <<>> /\ upRows = <<>> /\ UploadNonInputIdle

ColIdle == clIn = 1 /\ clIdx = 1 /\ clRes = <<>> /\ clPc = "idle"

\* Value of a label read as a bijective base-26 numeral (A = 1 .. Z = 26)
LetterValue(c) == CHOOSE k \in 1..26 : Alphabet[k] = c

RECURSIVE LabelValue(_)
LabelValue(s) ==
    IF s = <<>> THEN 0
    ELSE 26 * LabelValue(SubSeq(s, 1, Len(s) - 1)) + LetterValue(s[Len(s)])

IsLabel(s) == Len(s) >= 1 /\ \A k \in 1..Len(s) : \E a \in 1..26 : Alphabet[a] = s[k]

\* --------------------------------------------------- Grid Store (gspread)
\* Index of the last non-empty cell of a row, 0 when there is none
LastUsed(row) ==
    IF \A k \in 1..Len(row) : row[k] = <<>> THEN 0
    ELSE CHOOSE k \in 1..Len(row) :
             row[k] # <<>> /\ \A j \in (k + 1)..Len(row) : row[j] = <<>>

RECURSIVE MaxOver(_, _)
MaxOver(rows, n) ==
    IF n = 0 THEN 0 ELSE Max(LastUsed(rows[n]), MaxOver(rows, n - 1))

\* ws.get_all_values(): the cells up to the last used row and the last
\* used column; unused trailing rows and columns are not returned
get_all_values(rows) ==
    LET w == MaxOver(rows, Len(rows))
        h == IF \A n \in 1..Len(rows) : LastUsed(rows[n]) = 0 THEN 0
             ELSE CHOOSE n \in 1..Len(rows) :
                      LastUsed(rows[n]) # 0
                      /\ \A j \in (n + 1)..Len(rows) : LastUsed(rows[j]) = 0
    IN  [n \in 1..h |-> SubSeq(rows[n], 1, w)]

\* ws.add_cols(1): one empty column after the last physical column
add_cols(rows) == [n \in 1..Len(rows) |-> Append(rows[n], <<>>)]

\* ws.update_cell(row, col, value)
update_cell(rows, row, col, value) == [rows EXCEPT ![row][col] = value]

\* ws.update(values, "<L><first>:<L><last>"): the one-column block
\* values is written to rows first..last of the column the letters name
update_range(rows, rng, vals) ==
    [n \in 1..Len(rows) |->
        IF n >= rng.first /\ n <= rng.last /\ n - rng.first + 1 <= Len(vals)
        THEN [rows[n] EXCEPT ![LabelValue(rng.col)] = vals[n - rng.first + 1][1]]
        ELSE rows[n]]

\* ------------------------------------------------------ build_q4_mapping
Put(m, k, v) == [x \in (DOMAIN m) \cup {k} |-> IF x = k THEN v ELSE m[x]]

\* Faulty variant of MappingStore: the first occurrence of a key is kept
PutIfAbsent(m, k, v) == IF k \in DOMAIN m THEN m ELSE Put(m, k, v)

\* mapping[link] = status
MappingStore(m, k, v) == Put(m, k, v)

\* the for loop over rows[1:]
RECURSIVE MapRows(_, _, _)
MapRows(rows, link_idx, m) ==
    IF rows = <<>> THEN m
    ELSE LET r == Head(rows) IN
         IF Len(r) <= Max(link_idx, Q4_STATUS_COL_N)
         THEN MapRows(Tail(rows), link_idx, m)
         ELSE LET link == Strip(r[link_idx + 1])
                  status == Strip(r[Q4_STATUS_COL_N + 1])
              IN  IF link # <<>>
                  THEN MapRows(Tail(rows), link_idx, MappingStore(m, link, status))
                  ELSE MapRows(Tail(rows), link_idx, m)

\* build_q4_mapping(ws) when the header holds Q4_LINK_HEADER
build_q4_mapping(rows) ==
    MapRows(Tail(rows), IndexOf(rows[1], Q4_LINK_HEADER), EmptyMap)

\* ----------------------------------------------------------- ws_to_df
ws_to_df(rows) ==
    LET v == get_all_values(rows) IN [cols |-> v[1], rows |-> Tail(v)]

\* ------------------------------------------------- ensure_status_column
\* Faulty variant of ensure_status_column: the new column is not added to
\* the DataFrame
ensure_status_column_no_df(gridCols, gridRows, cols, rows) ==
    IF Contains(cols, Q2_STATUS_HEADER)
    THEN [wsCols |-> gridCols, wsRows |-> gridRows, cols |-> cols, rows |-> rows,
          ret |-> IndexOf(cols, Q2_STATUS_HEADER), issued |-> <<>>]
    ELSE [wsCols |-> gridCols + 1,
          wsRows |-> update_cell(add_cols(gridRows), 1, Len(cols) + 1, Q2_STATUS_HEADER),
          cols |-> cols, rows |-> rows, ret |-> Len(cols),
          issued |-> << [op |-> "add_cols", n |-> 1],
                        [op |-> "update_cell", row |-> 1, col |-> Len(cols) + 1,
                         value |-> Q2_STATUS_HEADER] >>]

\* The result of one call: the worksheet and DataFrame afterwards, the
\* returned zero-based index and the remote calls issued.
ensure_status_column(gridCols, gridRows, cols, rows) ==
    IF Contains(cols, Q2_STATUS_HEADER)
    THEN [wsCols |-> gridCols, wsRows |-> gridRows, cols |-> cols, rows |-> rows,
          ret |-> IndexOf(cols, Q2_STATUS_HEADER), issued |-> <<>>]
    ELSE LET new_col_idx_1 == Len(cols) + 1 IN
         [wsCols |-> gridCols + 1,
          wsRows |-> update_cell(add_cols(gridRows), 1, new_col_idx_1, Q2_STATUS_HEADER),
          cols |-> Append(cols, Q2_STATUS_HEADER),
          rows |-> [n \in 1..Len(rows) |-> Append(rows[n], <<>>)],
          ret |-> new_col_idx_1 - 1,
          issued |-> << [op |-> "add_cols", n |-> 1],
                        [op |-> "update_cell", row |-> 1, col |-> new_col_idx_1,
                         value |-> Q2_STATUS_HEADER] >>]

\* ------------------------------------------------------------ merge loop
\* row.get(Q2_LINK_HEADER, "").strip()
RowLink(cols, row) ==
    Strip(IF Contains(cols, Q2_LINK_HEADER)
          THEN row[IndexOf(cols, Q2_LINK_HEADER) + 1] ELSE <<>>)

\* Faulty variant of MergeRow: rows without a match are blanked
MergeRowClearing(cols, row, m) ==
    [row EXCEPT ![IndexOf(cols, Q2_STATUS_HEADER) + 1] =
        IF RowLink(cols, row) \in DOMAIN m THEN m[RowLink(cols, row)] ELSE <<>>]

\* one iteration: df_q2.at[idx, Q2_STATUS_HEADER] = link_to_status[link]
MergeRow(cols, row, m) ==
    IF RowLink(cols, row) \in DOMAIN m
    THEN [row EXCEPT ![IndexOf(cols, Q2_STATUS_HEADER) + 1] = m[RowLink(cols, row)]]
    ELSE row

MergeRows(cols, rows, m) == [n \in 1..Len(rows) |-> MergeRow(cols, rows[n], m)]

\* matches += 1 on every row whose link is in the mapping
MatchCount(cols, rows, m) ==
    Cardinality({n \in 1..Len(rows) : RowLink(cols, rows[n]) \in DOMAIN m})

\* -------------------------------------------------------- chunked write
\* values = [[v] for v in df_q2[Q2_STATUS_HEADER].tolist()]
StatusValues(cols, rows) ==
    [n \in 1..Len(rows) |-> << rows[n][IndexOf(cols, Q2_STATUS_HEADER) + 1] >>]

\* values[i : i + UPLOAD_CHUNK]
Slice(seq, from, to) ==
    SubSeq(seq, from + 1, IF to <= Len(seq) THEN to ELSE Len(seq))

\* Faulty variant of ChunkStartRow: the header row is not skipped
ChunkStartRowNoHeader(off) == off + 1

\* start_row = i + 2
ChunkStartRow(off) == off + 2

\* rng = f"{colLtr}{start_row}:{colLtr}{end_row}"
ChunkRange(colLtr, off, chunk_vals) ==
    [col |-> colLtr, first |-> ChunkStartRow(off),
     last |-> ChunkStartRow(off) + Len(chunk_vals) - 1]

\* chr(code) for the codes col_letter produces (65 + rem, rem in 0..25)
Chr(code) == Alphabet[code - 64]

\* ------------------------------------------------------------- col_letter
\* Faulty variant of ColLetterStep: divmod without the shift to zero-based
ColLetterStepNoShift(idx, res) ==
    [idx |-> idx \div 26, res |-> <<Chr(65 + (idx % 26))>> \o res]

\* One iteration of the while loop: divmod(idx_1based - 1, 26), then prepend
ColLetterStep(idx, res) ==
    [idx |-> (idx - 1) \div 26, res |-> <<Chr(65 + ((idx - 1) % 26))>> \o res]

RECURSIVE ColLetterLoop(_, _)
ColLetterLoop(idx, res) ==
    IF idx = 0 THEN res
    ELSE LET s == ColLetterStep(idx, res) IN ColLetterLoop(s.idx, s.res)

\* col_letter(idx_1based), for the arguments on which the loop ends
col_letter(idx_1based) == ColLetterLoop(idx_1based, <<>>)

ColInit ==
    /\ MatchIdle /\ UploadIdle
    /\ clIn \in (0 - MaxNegIdx) .. MaxColIdx
    /\ clIdx = clIn
    /\ clRes = <<>>
    /\ clPc = "loop"

\* while idx_1based: body
ColLoop ==
    /\ clPc = "loop"
    /\ clIdx # 0
    /\ Len(clRes) < MaxLabelLen
    /\ LET s == ColLetterStep(clIdx, clRes) IN
         /\ clIdx' = s.idx
         /\ clRes' = s.res
    /\ UNCHANGED <<clIn, clPc, matchVars, upVars>>

\* loop condition false: return res
ColReturn ==
    /\ clPc = "loop"
    /\ clIdx = 0
    /\ clPc' = "returned"
    /\ UNCHANGED <<clIn, clIdx, clRes, matchVars, upVars>>

ColNext == ColLoop \/ ColReturn

SpecCol == ColInit /\ [][ColNext]_vars

\* ----------------------------------------------------------------- inputs
Q4Width == Q4_STATUS_COL_N + 2

\* A Q4 header with Q4_LINK_HEADER at the one-based positions linkPos
Q4Header(linkPos) ==
    [k \in 1..Q4Width |-> IF k \in linkPos THEN Q4_LINK_HEADER ELSE <<"h">>]

FirstOf(S) == CHOOSE k \in S : \A j \in S : k <= j

\* A Q4 row of len cells: key under the first link column, status in
\* column N; any further link column holds another value
Q4Row(len, key, status, linkPos) ==
    [k \in 1..len |->
        IF linkPos # {} /\ k = FirstOf(linkPos) THEN key
        ELSE IF k = Q4_STATUS_COL_N + 1 THEN status
        ELSE IF k \in linkPos THEN <<"d">> ELSE <<"x">>]

Q4LinkPositions == {{}, {1}, {Q4_STATUS_COL_N + 1}, {Q4_STATUS_COL_N + 2},
                    {1, Q4_STATUS_COL_N + 2}}
Q4RowLens == {Q4_STATUS_COL_N, Q4_STATUS_COL_N + 1, Q4_STATUS_COL_N + 2}
Q4Keys == {<<>>, <<"a">>, <<" ","a"," ">>, <<"b">>}
Q4Statuses == {<<"v">>, <<" ","r"," ">>, <<" ">>}

Q4RowSet(linkPos) ==
    {Q4Row(len, key, status, linkPos) :
        len \in Q4RowLens, key \in Q4Keys, status \in Q4Statuses}

\* q4rows is a Q4 worksheet of the bounds: a header and up to MaxQ4Rows rows
IsQ4Table(t) ==
    \E lp \in Q4LinkPositions : \E m \in 0..MaxQ4Rows :
        \E body \in [1..m -> Q4RowSet(lp)] : t = <<Q4Header(lp)>> \o body

\* The Q4 worksheets of the end-to-end runs: no key column; two keys, one
\* padded; one key twice
MainQ4Tables ==
    { <<Q4Header({}), Q4Row(Q4Width, <<"a">>, <<"v">>, {})>>,
      <<Q4Header({1}), Q4Row(Q4Width, <<" ","a">>, <<"v">>, {1}),
                       Q4Row(Q4Width, <<"b">>, <<" ","r"," ">>, {1}),
                       Q4Row(Q4Width, <<>>, <<"x">>, {1})>>,
      <<Q4Header({1}), Q4Row(Q4Width, <<"a">>, <<"v">>, {1}),
                       Q4Row(Q4Width, <<"a"," ">>, <<"w">>, {1})>> }

Q2Layouts == { <<Q2_LINK_HEADER>>,
               <<Q2_LINK_HEADER, Q2_STATUS_HEADER>>,
               <<Q2_STATUS_HEADER, Q2_LINK_HEADER>>,
               <<<<"R","e","p","o">>>> }
Q2Keys == {<<" ","a"," ">>, <<"c">>}
Q2Priors == {<<>>, <<"o","l","d">>}

Q2CellSet(name) ==
    IF name = Q2_LINK_HEADER THEN Q2Keys
    ELSE IF name = Q2_STATUS_HEADER THEN Q2Priors
    ELSE {<<"o">>}

Q2RowSet(header) ==
    {r \in [1..Len(header) -> Q2Keys \cup Q2Priors \cup {<<"o">>}] :
        \A k \in 1..Len(header) : r[k] \in Q2CellSet(header[k])}

Pad(row, extra) == row \o [k \in 1..extra |-> <<>>]

\* g is a Q2 worksheet of the bounds: a header, up to MaxQ2Rows data rows
\* under it, and up to MaxExtraCols unused physical columns to the right
IsQ2Grid(g) ==
    \E extra \in 0..MaxExtraCols : \E header \in Q2Layouts : \E m \in 0..MaxQ2Rows :
        \E body \in [1..m -> Q2RowSet(header)] :
            g = [n \in 1..(m + 1) |-> Pad(IF n = 1 THEN header ELSE body[n - 1], extra)]

\* ------------------------------------------------------------ match.main
\* Faulty variant of CredentialFilePresent: the check always passes
CredentialCheckSkipped == TRUE

\* Path(SERVICE_ACCOUNT_KEY).exists()
CredentialFilePresent == credExists

MainInit ==
    /\ ColIdle /\ UploadIdle
    /\ pc = "start"
    /\ credExists \in BOOLEAN
    /\ chunkSize \in 1..MaxChunk
    /\ q4rows \in MainQ4Tables
    /\ IsQ2Grid(q2rows)
    /\ q2cols = Len(q2rows[1])
    /\ link_to_status = EmptyMap /\ dfCols = <<>> /\ dfRows = <<>>
    /\ status_col_zero = 0 /\ matches = 0 /\ i = 0
    /\ calls = <<>> /\ ensureRets = <<>>

\* if not Path(SERVICE_ACCOUNT_KEY).exists(): sys.exit(...)
MainCredMissing ==
    /\ pc = "start"
    /\ ~CredentialFilePresent
    /\ pc' = "exit_fatal"
    /\ UNCHANGED <<colVars, upVars, credExists, chunkSize, q4rows, q2cols, q2rows,
                   link_to_status, dfCols, dfRows, status_col_zero, matches, i,
                   calls, ensureRets>>

MainCredOk ==
    /\ pc = "start"
    /\ CredentialFilePresent
    /\ pc' = "cred_ok"
    /\ UNCHANGED <<colVars, upVars, credExists, chunkSize, q4rows, q2cols, q2rows,
                   link_to_status, dfCols, dfRows, status_col_zero, matches, i,
                   calls, ensureRets>>

\* build_q4_mapping: header.index raises ValueError, sys.exit(...)
MainMissingColumn ==
    /\ pc = "cred_ok"
    /\ ~Contains(q4rows[1], Q4_LINK_HEADER)
    /\ pc' = "exit_missing_column"
    /\ UNCHANGED <<colVars, upVars, credExists, chunkSize, q4rows, q2cols, q2rows,
                   link_to_status, dfCols, dfRows, status_col_zero, matches, i,
                   calls, ensureRets>>

\* link_to_status = build_q4_mapping(ws_q4)
MainBuildMapping ==
    /\ pc = "cred_ok"
    /\ Contains(q4rows[1], Q4_LINK_HEADER)
    /\ link_to_status' = build_q4_mapping(q4rows)
    /\ pc' = "mapped"
    /\ UNCHANGED <<colVars, upVars, credExists, chunkSize, q4rows, q2cols, q2rows,
                   dfCols, dfRows, status_col_zero, matches, i, calls, ensureRets>>

\* df_q2 = ws_to_df(ws_q2)
MainLoadQ2 ==
    /\ pc = "mapped"
    /\ dfCols' = ws_to_df(q2rows).cols
    /\ dfRows' = ws_to_df(q2rows).rows
    /\ pc' = "loaded"
    /\ UNCHANGED <<colVars, upVars, credExists, chunkSize, q4rows, q2cols, q2rows,
                   link_to_status, status_col_zero, matches, i, calls, ensureRets>>

\* df_q2, status_col_zero = ensure_status_column(ws_q2, df_q2)
MainEnsure ==
    /\ pc = "loaded"
    /\ LET e == ensure_status_column(q2cols, q2rows, dfCols, dfRows) IN
         /\ q2cols' = e.wsCols
         /\ q2rows' = e.wsRows
         /\ dfCols' = e.cols
         /\ dfRows' = e.rows
         /\ status_col_zero' = e.ret
         /\ calls' = calls \o e.issued
    /\ pc' = "reconciled"
    /\ UNCHANGED <<colVars, upVars, credExists, chunkSize, q4rows, link_to_status,
                   matches, i, ensureRets>>

\* the merge loop over df_q2.iterrows()
MainMerge ==
    /\ pc = "reconciled"
    /\ dfRows' = MergeRows(dfCols, dfRows, link_to_status)
    /\ matches' = MatchCount(dfCols, dfRows, link_to_status)
    /\ pc' = "merged"
    /\ UNCHANGED <<colVars, upVars, credExists, chunkSize, q4rows, q2cols, q2rows,
                   link_to_status, dfCols, status_col_zero, i, calls, ensureRets>>

\* one iteration of the upload loop: ws_q2.update(chunk_vals, rng)
MainWriteChunk ==
    /\ pc \in {"merged", "writing"}
    /\ i < Len(dfRows)
    /\ LET colLtr == col_letter(status_col_zero + 1)
           values == StatusValues(dfCols, dfRows)
           chunk_vals == Slice(values, i, i + chunkSize)
           rng == ChunkRange(colLtr, i, chunk_vals)
       IN  /\ q2rows' = update_range(q2rows, rng, chunk_vals)
           /\ calls' = Append(calls, [op |-> "update", rng |-> rng, vals |-> chunk_vals])
    /\ i' = i + chunkSize
    /\ pc' = "writing"
    /\ UNCHANGED <<colVars, upVars, credExists, chunkSize, q4rows, q2cols, link_to_status,
                   dfCols, dfRows, status_col_zero, matches, ensureRets>>

\* range(0, total, UPLOAD_CHUNK) is exhausted
MainDone ==
    /\ pc \in {"merged", "writing"}
    /\ i >= Len(dfRows)
    /\ pc' = "done"
    /\ UNCHANGED <<colVars, upVars, credExists, chunkSize, q4rows, q2cols, q2rows,
                   link_to_status, dfCols, dfRows, status_col_zero, matches, i,
                   calls, ensureRets>>

MainNext ==
    \/ MainCredMissing \/ MainCredOk \/ MainMissingColumn \/ MainBuildMapping
    \/ MainLoadQ2 \/ MainEnsure \/ MainMerge \/ MainWriteChunk \/ MainDone

SpecMatch == MainInit /\ [][MainNext]_vars

\* The Mapping Builder alone, over every Q4 worksheet of the bounds
MappingInit ==
    /\ ColIdle /\ UploadIdle
    /\ pc = "start"
    /\ credExists = TRUE
    /\ chunkSize = 1
    /\ IsQ4Table(q4rows)
    /\ q2rows = << <<Q2_LINK_HEADER>> >> /\ q2cols = 1
    /\ link_to_status = EmptyMap /\ dfCols = <<>> /\ dfRows = <<>>
    /\ status_col_zero = 0 /\ matches = 0 /\ i = 0
    /\ calls = <<>> /\ ensureRets = <<>>

MappingNext == MainCredOk \/ MainMissingColumn \/ MainBuildMapping

SpecMapping == MappingInit /\ [][MappingNext]_vars

\* The Schema Reconciler called repeatedly on one worksheet and DataFrame
ReconcileInit ==
    /\ ColIdle /\ UploadIdle
    /\ pc = "rc_start"
    /\ credExists = TRUE
    /\ chunkSize = 1
    /\ q4rows = <<>>
    /\ IsQ2Grid(q2rows)
    /\ q2cols = Len(q2rows[1])
    /\ link_to_status = EmptyMap /\ dfCols = <<>> /\ dfRows = <<>>
    /\ status_col_zero = 0 /\ matches = 0 /\ i = 0
    /\ calls = <<>> /\ ensureRets = <<>>

ReconcileLoad ==
    /\ pc = "rc_start"
    /\ dfCols' = ws_to_df(q2rows).cols
    /\ dfRows' = ws_to_df(q2rows).rows
    /\ pc' = "rc_loaded"
    /\ UNCHANGED <<colVars, upVars, credExists, chunkSize, q4rows, q2cols, q2rows,
                   link_to_status, status_col_zero, matches, i, calls, ensureRets>>

ReconcileCall ==
    /\ pc = "rc_loaded"
    /\ Len(ensureRets) < MaxEnsureCalls
    /\ LET e == ensure_status_column(q2cols, q2rows, dfCols, dfRows) IN
         /\ q2cols' = e.wsCols
         /\ q2rows' = e.wsRows
         /\ dfCols' = e.cols
         /\ dfRows' = e.rows
         /\ status_col_zero' = e.ret
         /\ ensureRets' = Append(ensureRets, e.ret)
         /\ calls' = calls \o e.issued
    /\ UNCHANGED <<colVars, upVars, pc, credExists, chunkSize, q4rows, link_to_status,
                   matches, i>>

ReconcileNext == ReconcileLoad \/ ReconcileCall

SpecReconcile == ReconcileInit /\ [][ReconcileNext]_vars

\* ----------------------------------------------------------------- claims
UpdateCalls == SelectSeq(calls, LAMBDA c : c.op = "update")

CeilDiv(n, c) == (n + c - 1) \div c

RECURSIVE ConcatVals(_)
ConcatVals(cs) == IF cs = <<>> THEN <<>> ELSE Head(cs).vals \o ConcatVals(Tail(cs))

\* C1: the range-write loop issues exactly ceil(N/C) update calls in
\* ascending offset order; the call for the chunk at offset o addresses rows
\* o+2 .. o+len(chunk)+1 of the target column and carries exactly that
\* chunk's values, so the value at offset o lands at row o+2, no row is
\* written twice and the chunks concatenated give the value sequence.
C1_RangeWrite ==
    LET ups == UpdateCalls
        N == Len(dfRows)
        C == chunkSize
    IN  /\ (pc \notin {"writing", "done"}) => ups = <<>>
        /\ (pc \in {"writing", "done"}) =>
             LET values == StatusValues(dfCols, dfRows) IN
             /\ \A k \in 1..Len(ups) :
                  LET o == (k - 1) * C
                      hi == IF o + C <= N THEN o + C ELSE N
                  IN  /\ o < N
                      /\ ups[k].rng.first = o + 2
                      /\ ups[k].rng.last = o + Len(ups[k].vals) + 1
                      /\ ups[k].vals = SubSeq(values, o + 1, hi)
                      /\ Len(ups[k].vals) >= 1 /\ Len(ups[k].vals) <= C
                      /\ LabelValue(ups[k].rng.col) = status_col_zero + 1
                      /\ dfCols[status_col_zero + 1] = Q2_STATUS_HEADER
                      /\ \A j \in 1..(k - 1) : ups[j].rng.last < ups[k].rng.first
                      /\ \A r \in ups[k].rng.first..ups[k].rng.last :
                           q2rows[r][status_col_zero + 1] = values[r - 1][1]
             /\ i = Len(ups) * C
             /\ (pc = "done") =>
                  /\ Len(ups) = CeilDiv(N, C)
                  /\ ConcatVals(ups) = values
                  /\ \A o \in 0..(N - 1) :
                       q2rows[o + 2][status_col_zero + 1] = values[o + 1][1]

C1_Witness ==
    /\ pc = "done" /\ Len(dfRows) = 3 /\ chunkSize = 2
    /\ Len(UpdateCalls) = 2
    /\ UpdateCalls[1].rng.first = 2 /\ UpdateCalls[1].rng.last = 3
    /\ UpdateCalls[2].rng.first = 4 /\ UpdateCalls[2].rng.last = 4
    /\ \E n \in 1..3 : dfRows[n][status_col_zero + 1] # <<>>

\* The value a destination row had in the target column when it was loaded
LoadedValue(n) ==
    LET t == ws_to_df(q2rows) IN
    IF Contains(t.cols, Q2_STATUS_HEADER)
    THEN t.rows[n][IndexOf(t.cols, Q2_STATUS_HEADER) + 1] ELSE <<>>

\* The destination row's key as stored in the worksheet, trimmed
LoadedKey(n) ==
    LET t == ws_to_df(q2rows) IN
    IF Contains(t.cols, Q2_LINK_HEADER)
    THEN Strip(t.rows[n][IndexOf(t.cols, Q2_LINK_HEADER) + 1]) ELSE <<>>

\* C2: after the merge loop every destination row's target value is the
\* mapping's value for the row's trimmed key when the key is mapped and
\* otherwise the value it had before; matches counts the rows whose key is
\* mapped; merging again with the same mapping changes nothing.
C2_Merge ==
    (pc = "merged") =>
        LET t == IndexOf(dfCols, Q2_STATUS_HEADER) + 1 IN
        /\ Len(dfRows) = Len(ws_to_df(q2rows).rows)
        /\ \A n \in 1..Len(dfRows) :
             dfRows[n][t] = IF LoadedKey(n) \in DOMAIN link_to_status
                            THEN link_to_status[LoadedKey(n)]
                            ELSE LoadedValue(n)
        /\ matches = Cardinality({n \in 1..Len(dfRows) :
                                     LoadedKey(n) \in DOMAIN link_to_status})
        /\ MergeRows(dfCols, dfRows, link_to_status) = dfRows

C2_Witness ==
    /\ pc = "merged" /\ matches = 1 /\ Len(dfRows) = 3
    /\ \E n \in 1..3 : LoadedKey(n) \notin DOMAIN link_to_status
                       /\ LoadedValue(n) = <<"o","l","d">>
                       /\ dfRows[n][IndexOf(dfCols, Q2_STATUS_HEADER) + 1] = <<"o","l","d">>
    /\ \E n \in 1..3 : LoadedKey(n) = <<"a">> /\ LoadedValue(n) = <<"o","l","d">>
                       /\ dfRows[n][IndexOf(dfCols, Q2_STATUS_HEADER) + 1] = <<"w">>

CountOp(name) == Len(SelectSeq(calls, LAMBDA c : c.op = name))

\* C3: two successive ensure_status_column calls with the same target
\* perform one add_cols and one update_cell in total when the column was
\* missing and none when it was present; a call on a header that holds the
\* target issues no remote call, and every call returns the same index.
C3_EnsureIdempotent ==
    /\ [](/\ CountOp("add_cols") <= 1
          /\ CountOp("update_cell") = CountOp("add_cols")
          /\ Len(calls) = CountOp("add_cols") + CountOp("update_cell")
          /\ \A k \in 1..Len(ensureRets) :
               /\ ensureRets[k] = ensureRets[1]
               /\ ensureRets[k] + 1 <= Len(dfCols)
               /\ dfCols[ensureRets[k] + 1] = Q2_STATUS_HEADER)
    /\ [][(ensureRets' # ensureRets) =>
            /\ (Contains(dfCols, Q2_STATUS_HEADER) =>
                  /\ calls' = calls /\ q2rows' = q2rows /\ q2cols' = q2cols
                  /\ dfCols' = dfCols /\ dfRows' = dfRows
                  /\ ensureRets'[Len(ensureRets')] = IndexOf(dfCols, Q2_STATUS_HEADER))
            /\ (ensureRets # <<>> => calls' = calls)
            /\ (~Contains(dfCols, Q2_STATUS_HEADER) =>
                  /\ ensureRets = <<>>
                  /\ CountOp("add_cols") = 0
                  /\ Len(calls') = 2
                  /\ calls'[1].op = "add_cols" /\ calls'[2].op = "update_cell")]_vars

C3_Witness ==
    /\ Len(ensureRets) = 2 /\ ensureRets[1] = ensureRets[2]
    /\ CountOp("add_cols") = 1 /\ CountOp("update_cell") = 1

\* C4: when the Q4 header holds the key column, build_q4_mapping maps each
\* non-empty trimmed key to the trimmed status of the last row that has
\* more cells than max(key index, 13) and that key; shorter rows are left
\* out without an error and the empty key is never mapped.
C4_Mapping ==
    (pc = "mapped") =>
        LET li == IndexOf(q4rows[1], Q4_LINK_HEADER)
            need == Max(li, Q4_STATUS_COL_N)
            Key(n) == Strip(q4rows[n][li + 1])
            Elig == {n \in 2..Len(q4rows) : Len(q4rows[n]) > need /\ Key(n) # <<>>}
        IN  /\ DOMAIN link_to_status = {Key(n) : n \in Elig}
            /\ <<>> \notin DOMAIN link_to_status
            /\ \A k \in DOMAIN link_to_status :
                 \E n \in Elig :
                    /\ Key(n) = k
                    /\ \A j \in Elig : Key(j) = k => j <= n
                    /\ link_to_status[k] = Strip(q4rows[n][Q4_STATUS_COL_N + 1])

C4_Witness ==
    /\ pc = "mapped" /\ Len(q4rows) = 3
    /\ Len(q4rows[2]) = Q4_STATUS_COL_N + 1 /\ Len(q4rows[3]) = Q4_STATUS_COL_N + 1
    /\ q4rows[2][1] = <<"a">> /\ q4rows[3][1] = <<" ","a"," ">>
    /\ q4rows[2][Q4_STATUS_COL_N + 1] = <<"v">>
    /\ q4rows[3][Q4_STATUS_COL_N + 1] = <<" ","r"," ">>
    /\ link_to_status = (<<"a">> :> <<"r">>)

\* C7: a run whose credential file is absent, or whose Q4 header lacks the
\* key column, ends before any add_cols, update_cell or update call is
\* issued on the Q2 worksheet.
C7_ErrorBeforeMutation ==
    (~credExists \/ ~Contains(q4rows[1], Q4_LINK_HEADER)) =>
        /\ calls = <<>>
        /\ pc \in {"start", "cred_ok", "exit_fatal", "exit_missing_column"}
        /\ (~credExists => pc \in {"start", "exit_fatal"})

C7_Witness ==
    /\ pc = "exit_missing_column" /\ credExists
    /\ ~Contains(q4rows[1], Q4_LINK_HEADER) /\ calls = <<>>

\* C8: when the target column is missing, ensure_status_column writes the
\* column name into header row 1 at the index of the column add_cols just
\* appended, for every worksheet whose physical column count is at least
\* the loaded header length.
C8_HeaderAtAppendedColumn ==
    \A k \in 1..Len(calls) :
        calls[k].op = "update_cell" =>
            /\ calls[k].col = q2cols
            /\ q2rows[1][q2cols] = Q2_STATUS_HEADER

\* ------------------------------------------------------------- upload.py
\* A JSON value as json.loads returns it: its kind, the text of a scalar
\* and the members of an object
NoMembers == [x \in {} |-> 0]
JNull == [k |-> "null", s |-> "", m |-> NoMembers]
JStr(s) == [k |-> "string", s |-> s, m |-> NoMembers]
JNum(s) == [k |-> "number", s |-> s, m |-> NoMembers]
JBool(s) == [k |-> "bool", s |-> s, m |-> NoMembers]
JArr == [k |-> "array", s |-> "", m |-> NoMembers]
JObj(members) == [k |-> "object", s |-> "", m |-> members]

\* v.get exists: of the values json.loads returns only a dict has .get
HasGet(v) == v.k = "object"

\* d.get(key, default)
DictGet(d, key, default) == IF key \in DOMAIN d.m THEN d.m[key] ELSE default

\* bool(v)
Truthy(v) ==
    CASE v.k = "null" -> FALSE
      [] v.k = "string" -> v.s # ""
      [] v.k = "number" -> v.s # "0"
      [] v.k = "bool" -> v.s = "true"
      [] v.k = "array" -> v.s # ""
      [] v.k = "object" -> DOMAIN v.m # {}

\* a or b
PyOr(a, b) == IF Truthy(a) THEN a ELSE b

RecordFields == <<"link", "repository", "commit", "file", "line", "timestamp",
                  "email", "detector_name", "detector_type", "raw_secret", "verified">>

\* the dict literal parse_line returns, as the row of its values
FlatRecord(obj, gh) ==
    << DictGet(gh, "link", JNull), DictGet(gh, "repository", JNull),
       DictGet(gh, "commit", JNull), DictGet(gh, "file", JNull),
       DictGet(gh, "line", JNull), DictGet(gh, "timestamp", JNull),
       DictGet(gh, "email", JNull),
       DictGet(obj, "DetectorName", JNull), DictGet(obj, "DetectorType", JNull),
       PyOr(DictGet(obj, "Raw", JNull), DictGet(obj, "RawV2", JNull)),
       DictGet(obj, "Verified", JNull) >>

\* parse_line(raw).  A line is given by what raw.strip() and json.loads make
\* of it: blank, not JSON, or the parsed document.  The result is None, a
\* record, or the AttributeError of calling .get on a value that has none.
parse_line(line) ==
    IF line.t = "blank" THEN [out |-> "none"]
    ELSE IF line.t = "garbage" THEN [out |-> "none"]
    ELSE LET obj == line.v IN
         IF ~HasGet(obj) THEN [out |-> "raise"]
         ELSE LET sm == DictGet(obj, "SourceMetadata", JObj(NoMembers)) IN
              IF ~HasGet(sm) THEN [out |-> "raise"]
              ELSE LET data == DictGet(sm, "Data", JObj(NoMembers)) IN
                   IF ~HasGet(data) THEN [out |-> "raise"]
                   ELSE LET gh == DictGet(data, "Github", JObj(NoMembers)) IN
                        IF ~HasGet(gh) THEN [out |-> "raise"]
                        ELSE [out |-> "record", rec |-> FlatRecord(obj, gh)]

\* Faulty variant of UploadChunk: the last row of every chunk is left out
UploadChunkShort(rows, off, size) == Slice(rows, off, off + size - 1)

\* df.iloc[i : i + UPLOAD_CHUNK].values.tolist()
UploadChunk(rows, off, size) == Slice(rows, off, off + size)

\* ---- input lines
JsonLine(v) == [t |-> "json", v |-> v]
BlankLine == [t |-> "blank", v |-> JNull]
GarbageLine == [t |-> "garbage", v |-> JNull]

Members1(k1, v1) == [x \in {k1} |-> v1]
Members2(k1, v1, k2, v2) == [x \in {k1, k2} |-> IF x = k1 THEN v1 ELSE v2]

GithubVals ==
    {JNull, JStr("x"), JArr, JObj(NoMembers)}
    \cup {JObj(Members1("link", JStr(u))) : u \in {"u1", "u2"}}
    \cup {JObj(Members2("link", JStr("u1"), "line", JNum("7")))}
DataVals ==
    {JNull, JNum("1"), JObj(NoMembers)}
    \cup {JObj(Members1("Github", g)) : g \in GithubVals}
MetaVals ==
    {JNull, JStr("x"), JObj(NoMembers)}
    \cup {JObj(Members1("Data", d)) : d \in DataVals}
RawPairs ==
    {NoMembers, Members1("Raw", JStr("s1")), Members1("RawV2", JStr("s2")),
     Members2("Raw", JStr(""), "RawV2", JStr("s2")),
     Members2("Raw", JStr("s1"), "RawV2", JStr("s2")),
     Members2("Raw", JNull, "DetectorName", JStr("AWS")),
     Members2("Verified", JBool("false"), "DetectorType", JNum("2"))}

Merge2(f, g) == [x \in (DOMAIN f) \cup (DOMAIN g) |-> IF x \in DOMAIN f THEN f[x] ELSE g[x]]

Documents ==
    {JNull, JNum("3"), JStr("x"), JArr, JBool("true")}
    \cup {JObj(r) : r \in RawPairs}
    \cup {JObj(Merge2(Members1("SourceMetadata", s), r)) : s \in MetaVals, r \in RawPairs}

\* every kind of line, for parse_line alone
AllLines == {BlankLine, GarbageLine} \cup {JsonLine(d) : d \in Documents}

GoodDoc(u, r) ==
    JObj(Merge2(Members1("SourceMetadata",
           JObj(Members1("Data", JObj(Members1("Github", JObj(Members1("link", JStr(u)))))))), r))

\* the lines of the upload runs
UploadLines ==
    { BlankLine, GarbageLine,
      JsonLine(JArr),
      JsonLine(JObj(NoMembers)),
      JsonLine(JObj(Members1("SourceMetadata", JNull))),
      JsonLine(GoodDoc("u1", Members2("Raw", JStr(""), "RawV2", JStr("s2")))),
      JsonLine(GoodDoc("u2", Members1("Raw", JStr("s1")))) }

StaleSheets == { <<>>, << <<JStr("stale")>>, <<JStr("stale")>> >> }

\* upload.main over a file of up to MaxLines lines
UploadInit ==
    /\ ColIdle /\ MatchIdleExceptShared
    /\ credExists \in BOOLEAN
    /\ chunkSize \in 1..MaxChunk
    /\ upPc = "start"
    /\ \E m \in 0..MaxLines : lines \in [1..m -> UploadLines]
    /\ upRows \in StaleSheets
    /\ UploadNonInputIdle

\* upload.main over a file of one line of any kind
ParseInit ==
    /\ ColIdle /\ MatchIdleExceptShared
    /\ credExists \in BOOLEAN
    /\ chunkSize = 1
    /\ upPc = "start"
    /\ lines \in [1..1 -> AllLines]
    /\ upRows = <<>>
    /\ UploadNonInputIdle

\* if not Path(SERVICE_ACCOUNT_KEY).exists(): sys.exit(...)
UpCredMissing ==
    /\ upPc = "start"
    /\ ~CredentialFilePresent
    /\ upPc' = "exit_fatal"
    /\ UNCHANGED <<colVars, matchVars, lines, lineNo, records, upRows, upCalls, upI>>

UpCredOk ==
    /\ upPc = "start"
    /\ CredentialFilePresent
    /\ upPc' = "loading"
    /\ UNCHANGED <<colVars, matchVars, lines, lineNo, records, upRows, upCalls, upI>>

\* load_findings: one iteration of `for raw in fh` whose parse_line returns
UpParseLine ==
    /\ upPc = "loading"
    /\ lineNo <= Len(lines)
    /\ LET rec == parse_line(lines[lineNo]) IN
         /\ rec.out # "raise"
         /\ records' = IF rec.out = "record" THEN Append(records, rec.rec) ELSE records
    /\ lineNo' = lineNo + 1
    /\ UNCHANGED <<colVars, matchVars, upPc, lines, upRows, upCalls, upI>>

\* load_findings: parse_line raises and nothing catches it
UpParseRaise ==
    /\ upPc = "loading"
    /\ lineNo <= Len(lines)
    /\ parse_line(lines[lineNo]).out = "raise"
    /\ upPc' = "crashed"
    /\ UNCHANGED <<colVars, matchVars, lines, lineNo, records, upRows, upCalls, upI>>

\* if not records: sys.exit(...)
UpNoFindings ==
    /\ upPc = "loading"
    /\ lineNo > Len(lines)
    /\ records = <<>>
    /\ upPc' = "exit_no_findings"
    /\ UNCHANGED <<colVars, matchVars, lines, lineNo, records, upRows, upCalls, upI>>

\* return pd.DataFrame(records)
UpLoaded ==
    /\ upPc = "loading"
    /\ lineNo > Len(lines)
    /\ records # <<>>
    /\ upPc' = "loaded"
    /\ UNCHANGED <<colVars, matchVars, lines, lineNo, records, upRows, upCalls, upI>>

\* connect_sheet(), then upload_dataframe: ws.clear()
UpClear ==
    /\ upPc = "loaded"
    /\ upRows' = <<>>
    /\ upCalls' = Append(upCalls, [op |-> "clear"])
    /\ upPc' = "cleared"
    /\ UNCHANGED <<colVars, matchVars, lines, lineNo, records, upI>>

\* ws.append_row(df.columns.tolist())
UpAppendHeader ==
    /\ upPc = "cleared"
    /\ upRows' = Append(upRows, RecordFields)
    /\ upCalls' = Append(upCalls, [op |-> "append_row", values |-> RecordFields])
    /\ upPc' = "appending"
    /\ UNCHANGED <<colVars, matchVars, lines, lineNo, records, upI>>

\* one iteration of the chunk loop: ws.append_rows(chunk.values.tolist())
UpAppendChunk ==
    /\ upPc = "appending"
    /\ upI < Len(records)
    /\ LET chunk == UploadChunk(records, upI, chunkSize) IN
         /\ upRows' = upRows \o chunk
         /\ upCalls' = Append(upCalls, [op |-> "append_rows", rows |-> chunk])
    /\ upI' = upI + chunkSize
    /\ UNCHANGED <<colVars, matchVars, upPc, lines, lineNo, records>>

\* range(0, total, UPLOAD_CHUNK) is exhausted
UpDone ==
    /\ upPc = "appending"
    /\ upI >= Len(records)
    /\ upPc' = "done"
    /\ UNCHANGED <<colVars, matchVars, lines, lineNo, records, upRows, upCalls, upI>>

UploadNext ==
    \/ UpCredMissing \/ UpCredOk \/ UpParseLine \/ UpParseRaise \/ UpNoFindings
    \/ UpLoaded \/ UpClear \/ UpAppendHeader \/ UpAppendChunk \/ UpDone

SpecUpload == UploadInit /\ [][UploadNext]_vars

SpecParse == ParseInit /\ [][UploadNext]_vars

\* C9: upload_dataframe issues one clear, then one header append, then
\* exactly ceil(N/C) append_rows calls in ascending offset order, each with
\* at most C whole rows and no range; with appended rows placed after the
\* last row the worksheet ends as the header followed by the N records in
\* their order, each once.
C9_AppendMode ==
    LET N == Len(records)
        C == chunkSize
    IN  /\ (upPc \notin {"cleared", "appending", "done"}) => upCalls = <<>>
        /\ (upPc = "cleared") => upCalls = << [op |-> "clear"] >>
        /\ (upPc \in {"appending", "done"}) =>
             /\ Len(upCalls) >= 2
             /\ upCalls[1] = [op |-> "clear"]
             /\ upCalls[2] = [op |-> "append_row", values |-> RecordFields]
             /\ \A k \in 3..Len(upCalls) :
                  LET o == (k - 3) * C
                      hi == IF o + C <= N THEN o + C ELSE N
                  IN  /\ o < N
                      /\ upCalls[k].op = "append_rows"
                      /\ DOMAIN upCalls[k] = {"op", "rows"}
                      /\ upCalls[k].rows = SubSeq(records, o + 1, hi)
                      /\ Len(upCalls[k].rows) >= 1 /\ Len(upCalls[k].rows) <= C
             /\ upI = (Len(upCalls) - 2) * C
             /\ upRows = <<RecordFields>> \o SubSeq(records, 1, IF upI <= N THEN upI ELSE N)
             /\ (upPc = "done") =>
                  /\ Len(upCalls) = 2 + CeilDiv(N, C)
                  /\ upRows = <<RecordFields>> \o records

C9_Witness ==
    /\ upPc = "done" /\ Len(records) = 3 /\ chunkSize = 2
    /\ Len(upCalls) = 4 /\ Len(upCalls[3].rows) = 2 /\ Len(upCalls[4].rows) = 1
    /\ records[1] # records[2]
    /\ Len(upRows) = 4

\* C10: parse_line never raises: on every line it returns a record or
\* nothing, and a SourceMetadata/Data/Github segment that is not an object
\* gives missing fields, not an error.
C10_ParseLineTotal == upPc # "crashed"

\* C5: for every one-based index n >= 1 col_letter returns the bijective
\* base-26 label of n (1 -> A, 26 -> Z, 27 -> AA, 52 -> AZ, 702 -> ZZ), and no
\* other index >= 1 yields the same label.
C5_BijectiveBase26 ==
    /\ (clIn >= 1 /\ clPc = "loop" /\ clIdx # 0) => Len(clRes) < MaxLabelLen
    /\ (clIn >= 1 /\ clPc = "returned") =>
          /\ IsLabel(clRes)
          /\ LabelValue(clRes) = clIn
          /\ clRes = col_letter(clIn)
          /\ (clIn = 1 => clRes = <<"A">>)
          /\ (clIn = 26 => clRes = <<"Z">>)
          /\ (clIn = 27 => clRes = <<"A","A">>)
          /\ (clIn = 52 => clRes = <<"A","Z">>)
          /\ (clIn = 702 => clRes = <<"Z","Z">>)
          /\ \A m \in 1..MaxColIdx : m # clIn => col_letter(m) # clRes

C5_Witness == clIn = 702 /\ clPc = "returned" /\ clRes = <<"Z","Z">>

\* C6: given an index < 1, col_letter fails with InvalidIndex: it never
\* returns a label for such an index.
C6_InvalidIndexRejected == (clPc = "returned") => clIn >= 1

====
